---- MODULE Spec2Model ----
(***************************************************************************)
(* Model of cellprofiler/modules/groups.py (the Groups module) over a      *)
(* measurements store, and of cellprofiler/modules/rescaleintensity.py     *)
(* (the RescaleIntensity module) over the image sets of a run.  Python     *)
(* arrays are 0-based; the sequences below are 1-based, so position k here *)
(* is index k-1 in the source.                                             *)
(***************************************************************************)
EXTENDS Integers, Sequences, FiniteSets, TLC

VARIABLES
    wants_groups,       \* Groups.wants_groups (cps.Binary)
    grouping_metadata,  \* Groups.grouping_metadata: the metadata_choice values
    in_batch_mode,      \* workspace.pipeline.in_batch_mode()
    m,                  \* workspace.measurements
    ret,                \* outcome of the last prepare_run ("none" before any)
    prev_ret,           \* outcome of the prepare_run before the last one
    m_before,           \* workspace.measurements as the last prepare_run found it
    new_image_numbers,  \* the array last handed to reorder_image_measurements
    grouping_list,      \* Groups.grouping_list (cps.Table): columns and rows
    image_set_list,     \* Groups.image_set_list (cps.Table): columns and rows
    rescale_method,         \* RescaleIntensity.rescale_method
    wants_automatic_low,    \* RescaleIntensity.wants_automatic_low
    wants_automatic_high,   \* RescaleIntensity.wants_automatic_high
    divisor_value,          \* RescaleIntensity.divisor_value
    d,                      \* self.get_dictionary(image_set_list)
    pc,                     \* where the pipeline is in its run over the groups
    current_group,          \* number of the group the pipeline is running
    group_image_sets,       \* the image sets of that group, in order
    outputs                 \* what run did on the image sets run so far

tableVars == <<grouping_list, image_set_list>>

groupsVars == <<wants_groups, grouping_metadata, in_batch_mode, m, ret,
                prev_ret, m_before, new_image_numbers, tableVars>>

rescaleVars == <<rescale_method, wants_automatic_low, wants_automatic_high,
                 divisor_value, d, pc, current_group, group_image_sets,
                 outputs>>

vars == <<groupsVars, rescaleVars>>

(***************************************************************************)
(* Bounds of the model.                                                    *)
(***************************************************************************)
MaxImageSets == 3
MaxKeys == 2
\* image numbers are unique and 1-based but need not be dense
MaxImageNumber == MaxImageSets + 1
\* pixel intensities are 0..MaxIntensity
MaxIntensity == 2
\* the number of groups a run of RescaleIntensity goes through
MaxGroups == 2

(***************************************************************************)
(* Strings.  TLA+ strings have no order, so a string is compared through   *)
(* its sequence of character codes, the way Python compares str/unicode.   *)
(***************************************************************************)
Chars(s) ==
    CASE s = "A"        -> <<65>>
      [] s = "AB"       -> <<65, 66>>
      [] s = "B"        -> <<66>>
      [] s = "Col"      -> <<67, 111, 108>>
      [] s = "None"     -> <<78, 111, 110, 101>>
      [] s = "Row"      -> <<82, 111, 119>>
      [] s = "Metadata" -> <<77, 101, 116, 97, 100, 97, 116, 97>>
      [] s = "_"        -> <<95>>

\* Python's < on two sequences (str, list, tuple) of integers: the first
\* differing element decides, a proper prefix is smaller.
RECURSIVE SeqLess(_, _)
SeqLess(a, b) ==
    IF a = <<>> THEN b # <<>>
    ELSE IF b = <<>> THEN FALSE
    ELSE IF Head(a) # Head(b) THEN Head(a) < Head(b)
    ELSE SeqLess(Tail(a), Tail(b))

StrLess(s, t) == SeqLess(Chars(s), Chars(t))

C_METADATA == "Metadata"
\* "_".join((cpmeas.C_METADATA, key)), kept as the pair that is joined
MetadataFeature(key) == <<C_METADATA, key>>
FeatureChars(f) == Chars(f[1]) \o Chars("_") \o Chars(f[2])
FeatureLess(f, g) == SeqLess(FeatureChars(f), FeatureChars(g))

GROUP_NUMBER == <<"Group", "Number">>
GROUP_INDEX == <<"Group", "Index">>

RowValues == {"A", "AB"}
ColValues == {"A", "B"}
\* the choices a metadata_choice setting can hold: "None" is the value a new
\* setting gets, "Row" and "Col" are the metadata the image sets carry
KeyNames == {"None", "Row", "Col"}

(***************************************************************************)
(* Small helpers for numpy and Python built-ins.                           *)
(***************************************************************************)
Max(S) == CHOOSE x \in S : \A y \in S : y <= x
Min(S) == CHOOSE x \in S : \A y \in S : x <= y
Range(s) == {s[i] : i \in DOMAIN s}

\* None and a value that is not None (a method returning "a list or None")
None == [none |-> TRUE]
Some(v) == [none |-> FALSE, value |-> v]

\* np.hstack over a non-empty list of 1-d arrays
RECURSIVE hstack(_)
hstack(arrays) ==
    IF arrays = <<>> THEN <<>> ELSE Head(arrays) \o hstack(Tail(arrays))

\* a[order]: numpy indexing of an array by an array of positions
Take(a, order) == [k \in 1..Len(order) |-> a[order[k]]]

(***************************************************************************)
(* The measurements store (cellprofiler.measurements.Measurements):        *)
(*   image_numbers  the image numbers of the image sets it holds           *)
(*   col            per-image features: feature name -> image number ->    *)
(*                  value                                                  *)
(*   grouping_tags  the experiment-level grouping tags, None until set     *)
(***************************************************************************)
RECURSIVE Ascending(_)
Ascending(S) ==
    IF S = {} THEN <<>> ELSE <<Min(S)>> \o Ascending(S \ {Min(S)})

\* m.get_image_numbers(): the image numbers in their order of arrival
m_get_image_numbers(mm) == Ascending(mm.image_numbers)

\* m.get_feature_names(cpmeas.IMAGE)
m_get_feature_names(mm) == DOMAIN mm.col

\* The key of a grouping: a dictionary from each grouping feature to the
\* value image set n has for it ({'Metadata_Row':'A','Metadata_Column':'01'})
GroupKey(mm, key_list, n) == [f \in Range(key_list) |-> mm.col[f][n]]

RECURSIVE DistinctKeys(_, _, _)
DistinctKeys(mm, key_list, image_numbers) ==
    IF image_numbers = <<>> THEN <<>>
    ELSE LET rest == DistinctKeys(mm, key_list, Tail(image_numbers))
             k == GroupKey(mm, key_list, Head(image_numbers))
         IN <<k>> \o SelectSeq(rest, LAMBDA x : x # k)

\* m.get_groupings(key_list): one (key, image_numbers) pair per distinct key,
\* the image numbers of a pair in their order of arrival
m_get_groupings(mm, key_list) ==
    LET image_numbers == m_get_image_numbers(mm)
        keys == DistinctKeys(mm, key_list, image_numbers)
    IN [g \in 1..Len(keys) |->
          <<keys[g],
            SelectSeq(image_numbers,
                      LAMBDA n : GroupKey(mm, key_list, n) = keys[g])>>]

\* m.reorder_image_measurements(new_image_numbers): the image set numbered n
\* becomes the image set numbered new_image_numbers[n], with all its features
m_reorder_image_measurements(mm, new_numbers) ==
    LET moved == {new_numbers[n] : n \in mm.image_numbers}
        old(k) == CHOOSE n \in mm.image_numbers : new_numbers[n] = k
    IN [mm EXCEPT !.image_numbers = moved,
                  !.col = [f \in DOMAIN mm.col |->
                             [k \in moved |-> mm.col[f][old(k)]]]]

\* m.add_all_measurements(cpmeas.IMAGE, feature, data): data[k] is the value
\* of the k-th image set
m_add_all_measurements(mm, feature, data) ==
    LET image_numbers == m_get_image_numbers(mm)
        column == [n \in mm.image_numbers |->
                     data[CHOOSE k \in 1..Len(image_numbers) :
                            image_numbers[k] = n]]
    IN [mm EXCEPT !.col = [f \in DOMAIN mm.col \cup {feature} |->
                             IF f = feature THEN column ELSE mm.col[f]]]

\* m.set_grouping_tags(tags)
m_set_grouping_tags(mm, tags) == [mm EXCEPT !.grouping_tags = tags]

(***************************************************************************)
(* Python 2 ordering of the values sorted(groupings) compares.             *)
(***************************************************************************)
\* dict < dict (CPython 2 dict_compare): the shorter dictionary is smaller;
\* for equal lengths the smallest key at which the two differ decides, first
\* by the key and then by the value under it
DictLess(a, b) ==
    IF Cardinality(DOMAIN a) # Cardinality(DOMAIN b)
    THEN Cardinality(DOMAIN a) < Cardinality(DOMAIN b)
    ELSE LET adiff == {k \in DOMAIN a : k \notin DOMAIN b \/ a[k] # b[k]}
             bdiff == {k \in DOMAIN b : k \notin DOMAIN a \/ b[k] # a[k]}
             smallest(D) == CHOOSE k \in D : \A j \in D \ {k} : FeatureLess(k, j)
         IN IF adiff = {} THEN FALSE
            ELSE LET akey == smallest(adiff)
                     bkey == smallest(bdiff)
                 IN IF akey # bkey THEN FeatureLess(akey, bkey)
                    ELSE StrLess(a[akey], b[bkey])

\* (keys, image_numbers) < (keys, image_numbers): tuples compare element-wise
GroupingLess(a, b) ==
    \/ DictLess(a[1], b[1])
    \/ a[1] = b[1] /\ SeqLess(a[2], b[2])

RECURSIVE InsertGrouping(_, _)
InsertGrouping(x, s) ==
    IF s = <<>> THEN <<x>>
    ELSE IF GroupingLess(x, Head(s)) THEN <<x>> \o s
    ELSE <<Head(s)>> \o InsertGrouping(x, Tail(s))

\* sorted(groupings): ascending and stable
RECURSIVE sorted(_)
sorted(groupings) ==
    IF groupings = <<>> THEN <<>>
    ELSE InsertGrouping(groupings[Len(groupings)],
                        sorted(SubSeq(groupings, 1, Len(groupings) - 1)))

RECURSIVE InsertPosition(_, _, _, _)
InsertPosition(p, s, secondary, primary) ==
    IF s = <<>> THEN <<p>>
    ELSE IF \/ primary[p] < primary[Head(s)]
            \/ primary[p] = primary[Head(s)] /\ secondary[p] < secondary[Head(s)]
         THEN <<p>> \o s
         ELSE <<Head(s)>> \o InsertPosition(p, Tail(s), secondary, primary)

RECURSIVE SortPositions(_, _, _)
SortPositions(n, secondary, primary) ==
    IF n = 0 THEN <<>>
    ELSE InsertPosition(n, SortPositions(n - 1, secondary, primary),
                        secondary, primary)

\* a variant with the two keys in the other order: np.lexsort((primary,
\* secondary))
lexsort_KeysSwapped(secondary, primary) ==
    SortPositions(Len(primary), primary, secondary)

\* a variant that takes ties from the highest secondary key down:
\* np.lexsort((-secondary, primary))
lexsort_SecondaryDescending(secondary, primary) ==
    SortPositions(Len(primary), [k \in 1..Len(secondary) |-> 0 - secondary[k]],
                  primary)

\* np.lexsort((secondary, primary)): the positions in ascending order of
\* primary, ties in ascending order of secondary, remaining ties by position
lexsort(secondary, primary) == SortPositions(Len(primary), secondary, primary)

(***************************************************************************)
(* Groups                                                                  *)
(***************************************************************************)
\* Groups.get_grouping_tags
get_grouping_tags(wg, gm) ==
    IF ~wg THEN None
    ELSE Some([i \in 1..Len(gm) |-> MetadataFeature(gm[i])])

\* a variant that also gives up when no key is configured
get_groupings_EmptyIsNone(wg, gm, mm) ==
    IF ~wg THEN None
    ELSE LET key_list == get_grouping_tags(wg, gm).value
         IN IF \/ key_list = <<>>
               \/ \E i \in 1..Len(key_list) :
                     key_list[i] \notin m_get_feature_names(mm)
            THEN None
            ELSE Some([key_list |-> key_list,
                       groupings |-> m_get_groupings(mm, key_list)])

\* Groups.get_groupings
get_groupings(wg, gm, mm) ==
    IF ~wg THEN None
    ELSE LET key_list == get_grouping_tags(wg, gm).value
         IN IF \E i \in 1..Len(key_list) :
                   key_list[i] \notin m_get_feature_names(mm)
            THEN None
            ELSE Some([key_list |-> key_list,
                       groupings |-> m_get_groupings(mm, key_list)])

\* a variant that leaves out the factor: every group gets np.ones(...)
GroupNumbers_AllOnes(groupings) ==
    hstack([g \in 1..Len(groupings) |->
              [j \in 1..Len(groupings[g][2]) |-> 1]])

\* np.hstack([np.ones(len(image_numbers), int) * (i + 1)
\*            for i, (keys, image_numbers) in enumerate(groupings)])
GroupNumbers(groupings) ==
    hstack([g \in 1..Len(groupings) |->
              [j \in 1..Len(groupings[g][2]) |-> 1 * ((g - 1) + 1)]])

\* a variant that counts the indexes of a group down instead of up
GroupIndexes_Reversed(groupings) ==
    hstack([g \in 1..Len(groupings) |->
              [j \in 1..Len(groupings[g][2]) |->
                 Len(groupings[g][2]) - (j - 1)]])

\* a variant that leaves the indexes 0-based: np.arange(len(image_numbers))
GroupIndexes_ZeroBased(groupings) ==
    hstack([g \in 1..Len(groupings) |->
              [j \in 1..Len(groupings[g][2]) |-> j - 1]])

\* np.hstack([np.arange(len(image_numbers)) + 1
\*            for keys, image_numbers in groupings])
GroupIndexes(groupings) ==
    hstack([g \in 1..Len(groupings) |->
              [j \in 1..Len(groupings[g][2]) |-> (j - 1) + 1]])

\* np.hstack([image_numbers for keys, image_numbers in groupings])
ImageNumbers(groupings) ==
    hstack([g \in 1..Len(groupings) |-> groupings[g][2]])

\* a variant that numbers the image sets from 0: np.arange(len(image_numbers))
NewImageNumbers_ZeroBased(image_numbers, order) ==
    LET moved == Take(image_numbers, order)
    IN [n \in 0..Max(Range(image_numbers)) |->
          IF \E k \in 1..Len(moved) : moved[k] = n
          THEN Max({k \in 1..Len(moved) : moved[k] = n}) - 1
          ELSE 0]

\* a variant that fills the array the other way round: position k gets the
\* old number of the image set that comes k-th
NewImageNumbers_Inverse(image_numbers, order) ==
    LET moved == Take(image_numbers, order)
    IN [n \in 0..Max(Range(image_numbers)) |->
          IF n \in 1..Len(moved) THEN moved[n] ELSE 0]

\* new_image_numbers = np.zeros(np.max(image_numbers) + 1, int)
\* new_image_numbers[image_numbers[order]] = np.arange(len(image_numbers))+1
NewImageNumbers(image_numbers, order) ==
    LET moved == Take(image_numbers, order)
    IN [n \in 0..Max(Range(image_numbers)) |->
          IF \E k \in 1..Len(moved) : moved[k] = n
          THEN (Max({k \in 1..Len(moved) : moved[k] = n}) - 1) + 1
          ELSE 0]

\* What one call of prepare_run does: what it returns or raises, the
\* measurements it leaves and the array it handed to
\* reorder_image_measurements (None when it did not get that far)
Outcome(r, mm, numbers) == [ret |-> r, m |-> mm, new_image_numbers |-> numbers]

\* a variant that computes the arrays and leaves the writing to its caller
WriteGroups_NotPersisted(wg, gm, mm, groupings) ==
    LET group_numbers0 == GroupNumbers(groupings)
        group_indexes0 == GroupIndexes(groupings)
        image_numbers == ImageNumbers(groupings)
        order == lexsort(group_indexes0, group_numbers0)
    IN Outcome("True", mm, Some(NewImageNumbers(image_numbers, order)))

\* the tail of prepare_run, from the arrays to the return
WriteGroups(wg, gm, mm, groupings) ==
    LET group_numbers0 == GroupNumbers(groupings)
        group_indexes0 == GroupIndexes(groupings)
        image_numbers == ImageNumbers(groupings)
        order == lexsort(group_indexes0, group_numbers0)
        group_numbers == Take(group_numbers0, order)
        group_indexes == Take(group_indexes0, order)
        new_numbers == NewImageNumbers(image_numbers, order)
        m1 == m_reorder_image_measurements(mm, new_numbers)
        m2 == m_add_all_measurements(m1, GROUP_NUMBER, group_numbers)
        m3 == m_add_all_measurements(m2, GROUP_INDEX, group_indexes)
        m4 == m_set_grouping_tags(m3, get_grouping_tags(wg, gm))
    IN Outcome("True", m4, Some(new_numbers))

\* a variant that goes on as if nothing were wrong
NoGroupings_ReturnsTrue(mm) == Outcome("True", mm, None)

\* a variant that clears the grouping tags before it gives up
NoGroupings_ClearsTags(mm) ==
    Outcome("False", m_set_grouping_tags(mm, Some(<<>>)), None)

\* prepare_run when get_groupings returned None: return False
NoGroupings(mm) == Outcome("False", mm, None)

\* a variant that treats no image sets as nothing to do
EmptyGroupings_ReturnsTrue(mm) == Outcome("True", mm, None)

\* prepare_run when there is no grouping at all: np.hstack of an empty list
\* raises ValueError
EmptyGroupings(mm) == Outcome("ValueError", mm, None)

\* a variant that records the grouping tags although it does not group
NotGrouping_SetsTags(mm) ==
    Outcome("True", m_set_grouping_tags(mm, Some(<<>>)), None)

\* prepare_run in batch mode or with grouping turned off: return True
NotGrouping(mm) == Outcome("True", mm, None)

\* Groups.prepare_run
prepare_run(wg, gm, batch, mm) ==
    IF batch THEN NotGrouping(mm)
    ELSE IF ~wg THEN NotGrouping(mm)
    ELSE LET result == get_groupings(wg, gm, mm)
         IN IF result.none THEN NoGroupings(mm)
            ELSE LET groupings == sorted(result.value.groupings)
                 IN IF groupings = <<>> THEN EmptyGroupings(mm)
                    ELSE WriteGroups(wg, gm, mm, groupings)

(***************************************************************************)
(* Groups.update_tables                                                    *)
(***************************************************************************)
\* np.bincount(a): how often each of 0..max(a) occurs in a
bincount(a) ==
    IF a = <<>> THEN <<>>
    ELSE [v \in 0..Max(Range(a)) |-> Cardinality({k \in 1..Len(a) : a[k] = v})]

\* np.argwhere(a == v).flatten(): the positions of v in a, ascending
argwhere(a, v) == SelectSeq([k \in 1..Len(a) |-> k], LAMBDA k : a[k] = v)

\* m[cpmeas.IMAGE, feature, image_numbers]: the values of a feature for the
\* image numbers given, in their order
m_getitem(mm, feature, image_numbers) ==
    [k \in 1..Len(image_numbers) |-> mm.col[feature][image_numbers[k]]]

\* unicode(n) for an integer n >= 0: its decimal digits
RECURSIVE unicode(_)
unicode(n) ==
    LET digit(k) == CASE k = 0 -> "0" [] k = 1 -> "1" [] k = 2 -> "2"
                      [] k = 3 -> "3" [] k = 4 -> "4" [] k = 5 -> "5"
                      [] k = 6 -> "6" [] k = 7 -> "7" [] k = 8 -> "8"
                      [] k = 9 -> "9"
    IN IF n < 10 THEN digit(n) ELSE unicode(n \div 10) \o digit(n % 10)

\* a cps.Table before any column or row is put in
EmptyTable == [columns |-> <<>>, data |-> <<>>]

\* Python's < on two lists of strings
RECURSIVE StrListLess(_, _)
StrListLess(a, b) ==
    IF a = <<>> THEN b # <<>>
    ELSE IF b = <<>> THEN FALSE
    ELSE IF Head(a) # Head(b) THEN StrLess(Head(a), Head(b))
    ELSE StrListLess(Tail(a), Tail(b))

\* (group_number, group_key_values, count) < (...), element-wise
KCountLess(a, b) ==
    \/ a[1] < b[1]
    \/ a[1] = b[1] /\ StrListLess(a[2], b[2])
    \/ a[1] = b[1] /\ a[2] = b[2] /\ a[3] < b[3]

RECURSIVE InsertKCount(_, _)
InsertKCount(x, s) ==
    IF s = <<>> THEN <<x>>
    ELSE IF KCountLess(x, Head(s)) THEN <<x>> \o s
    ELSE <<Head(s)>> \o InsertKCount(x, Tail(s))

\* sorted([...]) of the (group_number, group_key_values, count) tuples
RECURSIVE SortedKCount(_)
SortedKCount(k_count) ==
    IF k_count = <<>> THEN <<>>
    ELSE InsertKCount(k_count[Len(k_count)],
                      SortedKCount(SubSeq(k_count, 1, Len(k_count) - 1)))

\* counts = np.bincount(group_numbers)
GroupCounts(group_numbers) == bincount(group_numbers)

\* a variant that looks for a 0-based first index
FirstIndexes_ZeroBased(group_indexes) == argwhere(group_indexes, 0)

\* first_indexes = np.argwhere(group_indexes == 1).flatten()
FirstIndexes(group_indexes) == argwhere(group_indexes, 1)

\* the rows of the grouping list: for each image set with group index 1, in
\* sorted order, the values of its grouping keys and the count of its group
GroupingListRows(mm, metadata_feature_names) ==
    LET image_numbers == m_get_image_numbers(mm)
        group_indexes == m_getitem(mm, GROUP_INDEX, image_numbers)
        group_numbers == m_getitem(mm, GROUP_NUMBER, image_numbers)
        counts == GroupCounts(group_numbers)
        first_indexes == FirstIndexes(group_indexes)
        group_keys == [f \in 1..Len(metadata_feature_names) |->
                         m_getitem(mm, metadata_feature_names[f], image_numbers)]
        k_count == SortedKCount(
                     [j \in 1..Len(first_indexes) |->
                        LET i == first_indexes[j]
                        IN <<group_numbers[i],
                             [f \in 1..Len(group_keys) |-> group_keys[f][i]],
                             counts[group_numbers[i]]>>])
    IN [j \in 1..Len(k_count) |-> k_count[j][2] \o <<k_count[j][3]>>]

\* a variant that lists each group from its last image set to its first
TableOrder_IndexDescending(group_indexes, group_numbers) ==
    lexsort([k \in 1..Len(group_indexes) |-> 0 - group_indexes[k]],
            group_numbers)

\* order = np.lexsort((group_indexes, group_numbers))
TableOrder(group_indexes, group_numbers) ==
    lexsort(group_indexes, group_numbers)

\* the rows of the image set table: one per position of order, each value
\* through unicode().  The measurements modelled carry no channel, so the
\* loop over channel_descriptors adds no column.
ImageSetListRows(mm, metadata_feature_names) ==
    LET image_numbers == m_get_image_numbers(mm)
        group_indexes == m_getitem(mm, GROUP_INDEX, image_numbers)
        group_numbers == m_getitem(mm, GROUP_NUMBER, image_numbers)
        order == TableOrder(group_indexes, group_numbers)
    IN [j \in 1..Len(order) |->
          <<unicode(group_numbers[order[j]]), unicode(group_indexes[order[j]])>>
          \o [f \in 1..Len(metadata_feature_names) |->
                m_getitem(mm, metadata_feature_names[f], image_numbers)[order[j]]]]

\* "Group: %s" % key, kept as the pair that is formatted
GroupColumn(key) == <<"Group: ", key>>

\* Groups.update_tables.  refreshed: workspace.refresh_image_set() returned
\* (it did not raise)
update_tables(wg, gm, mm, gl, isl, refreshed) ==
    IF ~wg \/ ~refreshed THEN [grouping_list |-> gl, image_set_list |-> isl]
    ELSE LET metadata_feature_names ==
                 [i \in 1..Len(gm) |-> MetadataFeature(gm[i])]
             metadata_key_names ==
                 [i \in 1..Len(gm) |-> metadata_feature_names[i][2]]
             key_columns == [i \in 1..Len(gm) |-> GroupColumn(metadata_key_names[i])]
         IN [grouping_list |->
               [columns |-> key_columns \o <<"Count">>,
                data |-> GroupingListRows(mm, metadata_feature_names)],
             image_set_list |->
               [columns |-> <<"Group number", "Group index">> \o key_columns,
                data |-> ImageSetListRows(mm, metadata_feature_names)]]

(***************************************************************************)
(* RescaleIntensity: the choices of its settings                           *)
(***************************************************************************)
M_STRETCH == "Stretch each image to use the full intensity range"
M_MANUAL_INPUT_RANGE ==
    "Choose specific values to be reset to the full intensity range"
M_MANUAL_IO_RANGE == "Choose specific values to be reset to a custom range"
M_DIVIDE_BY_IMAGE_MINIMUM == "Divide by the image's minimum"
M_DIVIDE_BY_IMAGE_MAXIMUM == "Divide by the image's maximum"
M_DIVIDE_BY_VALUE == "Divide each image by the same value"
M_DIVIDE_BY_MEASUREMENT == "Divide each image by a previously calculated value"
M_SCALE_BY_IMAGE_MAXIMUM ==
    "Match the image's maximum to another image's maximum"

M_ALL == <<M_STRETCH, M_MANUAL_INPUT_RANGE, M_MANUAL_IO_RANGE,
           M_DIVIDE_BY_IMAGE_MINIMUM, M_DIVIDE_BY_IMAGE_MAXIMUM,
           M_DIVIDE_BY_VALUE, M_DIVIDE_BY_MEASUREMENT,
           M_SCALE_BY_IMAGE_MAXIMUM>>

LOW_ALL_IMAGES == "Minimum of all images"
LOW_EACH_IMAGE == "Minimum for each image"
CUSTOM_VALUE == "Custom"
LOW_ALL == <<CUSTOM_VALUE, LOW_EACH_IMAGE, LOW_ALL_IMAGES>>

HIGH_ALL_IMAGES == "Maximum of all images"
HIGH_EACH_IMAGE == "Maximum for each image"
HIGH_ALL == <<CUSTOM_VALUE, HIGH_EACH_IMAGE, HIGH_ALL_IMAGES>>

\* the values the settings are created with; the ranges are (min, max)
source_low == 0
source_high == 1
source_scale == <<0, 1>>
dest_scale == <<0, 1>>
DefaultDivisorValue == 1

\* RescaleIntensity.create_settings: a Choice starts at its first choice;
\* the dictionary of the module starts empty and no group has been run
RescaleCreated ==
    /\ rescale_method = M_ALL[1]
    /\ wants_automatic_low = LOW_ALL[1]
    /\ wants_automatic_high = HIGH_ALL[1]
    /\ divisor_value = DefaultDivisorValue
    /\ d = [k \in {} |-> None]
    /\ pc = "new"
    /\ current_group = 0
    /\ group_image_sets = <<>>
    /\ outputs = <<>>

(***************************************************************************)
(* RescaleIntensity: images and the numpy calls on them.  An image is two  *)
(* pixels, its pixel_data listed in ascending order (the order of the      *)
(* pixels plays no part in a minimum or a maximum; the masks cover both    *)
(* positions).  image.mask of an image without a mask is all True.         *)
(***************************************************************************)
Intensities == 0..MaxIntensity

PixelData == {p \in Intensities \X Intensities : p[1] <= p[2]}

Masks == {<<TRUE, FALSE>>, <<FALSE, TRUE>>, <<FALSE, FALSE>>}

Images ==
    {[pixel_data |-> p, has_mask |-> FALSE, mask |-> <<TRUE, TRUE>>] :
        p \in PixelData}
    \cup {[pixel_data |-> p, has_mask |-> TRUE, mask |-> mk] :
            p \in PixelData, mk \in Masks}

\* a call that raised, and a call that returned v
Raised(e) == [raised |-> e]
Returned(v) == [raised |-> "none", value |-> v]

\* data[mask]: numpy indexing by a boolean array
RECURSIVE Select(_, _)
Select(data, mask) ==
    IF data = <<>> THEN <<>>
    ELSE (IF Head(mask) THEN <<Head(data)>> ELSE <<>>)
         \o Select(Tail(data), Tail(mask))

\* numpy.max / numpy.min (and the built-ins max / min): an empty array has
\* no maximum
numpy_max(a) ==
    IF a = <<>> THEN Raised("ValueError") ELSE Returned(Max(Range(a)))
numpy_min(a) ==
    IF a = <<>> THEN Raised("ValueError") ELSE Returned(Min(Range(a)))

\* a float that is the quotient of two integers, kept as <<numerator,
\* denominator>> with a positive denominator
Quotient(a, b) == <<a, b>>
QuotientLess(x, y) == x[1] * y[2] < y[1] * x[2]
QuotientEqual(x, y) == x[1] * y[2] = y[1] * x[2]

(***************************************************************************)
(* RescaleIntensity: the dictionary of automatic values                    *)
(***************************************************************************)
\* d[key] = value
SetItem(dd, key, value) ==
    [k \in (DOMAIN dd) \cup {key} |-> IF k = key THEN value ELSE dd[k]]

\* d[key]
GetItem(dd, key) ==
    IF key \in DOMAIN dd THEN Returned(dd[key]) ELSE Raised("KeyError")

set_automatic_minimum(dd, value) == SetItem(dd, LOW_ALL_IMAGES, value)
get_automatic_minimum(dd) == GetItem(dd, LOW_ALL_IMAGES)
set_automatic_maximum(dd, value) == SetItem(dd, HIGH_ALL_IMAGES, value)
get_automatic_maximum(dd) == GetItem(dd, HIGH_ALL_IMAGES)

(***************************************************************************)
(* RescaleIntensity.prepare_group                                          *)
(***************************************************************************)
\* the body of the loop for wants_automatic_high == HIGH_ALL_IMAGES: the new
\* max_value.  The assignment to max_value stands in the else branch, so
\* an image with a mask leaves max_value as it was.
AutomaticHigh(max_value, image) ==
    IF image.has_mask
    THEN LET vmax == numpy_max(Select(image.pixel_data, image.mask))
         IN IF vmax.raised # "none" THEN vmax ELSE Returned(max_value)
    ELSE LET vmax == numpy_max(image.pixel_data).value
         IN Returned(IF max_value.none THEN Some(vmax)
                     ELSE Some(Max({max_value.value, vmax})))

\* the body of the loop for wants_automatic_low == LOW_ALL_IMAGES: the new
\* min_value, the assignment standing in the else branch as well
AutomaticLow(min_value, image) ==
    IF image.has_mask
    THEN LET vmin == numpy_min(Select(image.pixel_data, image.mask))
         IN IF vmin.raised # "none" THEN vmin ELSE Returned(min_value)
    ELSE LET vmin == numpy_min(image.pixel_data).value
         IN Returned(IF min_value.none THEN Some(vmin)
                     ELSE Some(Min({min_value.value, vmin})))

\* the loop over the image sets of the group: <<max_value, min_value>> at
\* its end, or the exception that ended it
RECURSIVE prepare_group_loop(_, _, _, _, _)
prepare_group_loop(image_sets, low, high, max_value, min_value) ==
    IF image_sets = <<>> THEN Returned(<<max_value, min_value>>)
    ELSE LET image == Head(image_sets).image
             hi == IF high = HIGH_ALL_IMAGES
                   THEN AutomaticHigh(max_value, image)
                   ELSE Returned(max_value)
         IN IF hi.raised # "none" THEN hi
            ELSE LET lo == IF low = LOW_ALL_IMAGES
                           THEN AutomaticLow(min_value, image)
                           ELSE Returned(min_value)
                 IN IF lo.raised # "none" THEN lo
                    ELSE prepare_group_loop(Tail(image_sets), low, high,
                                            hi.value, lo.value)

\* prepare_group: the dictionary it leaves and how it ended ("True" from
\* the early return, "None" from the end of the method, or the exception)
prepare_group(low, high, dd, image_sets) ==
    IF high # HIGH_ALL_IMAGES /\ low # LOW_ALL_IMAGES
    THEN [d |-> dd, result |-> "True"]
    ELSE LET r == prepare_group_loop(image_sets, low, high, None, None)
         IN IF r.raised # "none" THEN [d |-> dd, result |-> r.raised]
            ELSE LET d1 == IF high = HIGH_ALL_IMAGES
                           THEN set_automatic_maximum(dd, r.value[1])
                           ELSE dd
                     d2 == IF low = LOW_ALL_IMAGES
                           THEN set_automatic_minimum(d1, r.value[2])
                           ELSE d1
                 IN [d |-> d2, result |-> "None"]

\* is_aggregation_module
is_aggregation_module(low, high) ==
    high = HIGH_ALL_IMAGES \/ low = LOW_ALL_IMAGES

(***************************************************************************)
(* RescaleIntensity.run and the methods it dispatches to.  An image set    *)
(* is [image, reference, measurement]: the input image, the image named by *)
(* matching_image_name and the measurement named by divisor_measurement.   *)
(***************************************************************************)
\* out_range=(0.0, 1.0), the default of rescale
DefaultOutRange == <<0, 1>>

\* rescale: skimage.exposure.rescale_intensity is a library call, kept as
\* the call with its arguments
rescale(image, in_range, out_range) ==
    Returned([rescale_intensity |-> image.pixel_data,
              in_range |-> in_range, out_range |-> out_range])

stretch(input_image) ==
    LET data == input_image.pixel_data
        mask == input_image.mask
        lo == numpy_min(Select(data, mask))
        hi == numpy_max(Select(data, mask))
    IN IF lo.raised # "none" THEN lo
       ELSE rescale(input_image, <<Some(lo.value), Some(hi.value)>>,
                    DefaultOutRange)

\* get_source_range: (src_min, src_max), each None or a number
get_source_range(input_image, low, high, dd) ==
    IF high = CUSTOM_VALUE /\ low = CUSTOM_VALUE
    THEN Returned(<<Some(source_scale[1]), Some(source_scale[2])>>)
    ELSE LET input_pixels ==
                 IF input_image.has_mask
                 THEN Select(input_image.pixel_data, input_image.mask)
                 ELSE input_image.pixel_data
             src_min ==
                 IF low = LOW_ALL_IMAGES THEN get_automatic_minimum(dd)
                 ELSE IF low = LOW_EACH_IMAGE
                 THEN LET v == numpy_min(input_pixels)
                      IN IF v.raised # "none" THEN v
                         ELSE Returned(Some(v.value))
                 ELSE Returned(Some(source_low))
             src_max ==
                 IF high = HIGH_ALL_IMAGES THEN get_automatic_maximum(dd)
                 ELSE IF high = HIGH_EACH_IMAGE
                 THEN LET v == numpy_max(input_pixels)
                      IN IF v.raised # "none" THEN v
                         ELSE Returned(Some(v.value))
                 ELSE Returned(Some(source_high))
         IN IF src_min.raised # "none" THEN src_min
            ELSE IF src_max.raised # "none" THEN src_max
            ELSE Returned(<<src_min.value, src_max.value>>)

manual_input_range(input_image, low, high, dd) ==
    LET in_range == get_source_range(input_image, low, high, dd)
    IN IF in_range.raised # "none" THEN in_range
       ELSE rescale(input_image, in_range.value, DefaultOutRange)

manual_io_range(input_image, low, high, dd) ==
    LET in_range == get_source_range(input_image, low, high, dd)
        out_range == <<dest_scale[1], dest_scale[2]>>
    IN IF in_range.raised # "none" THEN in_range
       ELSE rescale(input_image, in_range.value, out_range)

\* a variant without the test for 0: numpy divides by 0 with a warning
divide_WithoutZeroTest(data, value) ==
    Returned([i \in 1..Len(data) |-> Quotient(data[i], value)])

\* divide: data / float(value), every pixel a quotient
divide(data, value) ==
    IF value = 0 THEN Raised("ZeroDivisionError")
    ELSE Returned([i \in 1..Len(data) |-> Quotient(data[i], value)])

divide_by_image_minimum(input_image) ==
    LET data == input_image.pixel_data
        src_min == numpy_min(Select(data, input_image.mask))
    IN IF src_min.raised # "none" THEN src_min
       ELSE divide(data, src_min.value)

divide_by_image_maximum(input_image) ==
    LET data == input_image.pixel_data
        src_max == numpy_max(Select(data, input_image.mask))
    IN IF src_max.raised # "none" THEN src_max
       ELSE divide(data, src_max.value)

divide_by_value(input_image, divisor) ==
    divide(input_image.pixel_data, divisor)

divide_by_measurement(image_set, input_image) ==
    divide(input_image.pixel_data, image_set.measurement)

scale_by_image_maximum(image_set, input_image) ==
    LET image_max ==
            numpy_max(Select(input_image.pixel_data, input_image.mask))
    IN IF image_max.raised # "none" THEN image_max
       ELSE IF image_max.value = 0
       THEN Returned([i \in 1..Len(input_image.pixel_data) |->
                        Quotient(input_image.pixel_data[i], 1)])
       ELSE LET reference_image == image_set.reference
                reference_pixels ==
                    Select(reference_image.pixel_data, reference_image.mask)
                reference_max == numpy_max(reference_pixels)
            IN IF reference_max.raised # "none" THEN reference_max
               ELSE divide([i \in 1..Len(input_image.pixel_data) |->
                              input_image.pixel_data[i] * reference_max.value],
                           image_max.value)

\* run: the exception it raised ("none" if it returned) and the images it
\* added to the image set under rescaled_image_name
run(method, low, high, divisor, dd, image_set) ==
    LET input_image == image_set.image
        output_image ==
            CASE method = M_STRETCH -> stretch(input_image)
              [] method = M_MANUAL_INPUT_RANGE ->
                   manual_input_range(input_image, low, high, dd)
              [] method = M_MANUAL_IO_RANGE ->
                   manual_io_range(input_image, low, high, dd)
              [] method = M_DIVIDE_BY_IMAGE_MINIMUM ->
                   divide_by_image_minimum(input_image)
              [] method = M_DIVIDE_BY_IMAGE_MAXIMUM ->
                   divide_by_image_maximum(input_image)
              [] method = M_DIVIDE_BY_VALUE ->
                   divide_by_value(input_image, divisor)
              [] method = M_DIVIDE_BY_MEASUREMENT ->
                   divide_by_measurement(image_set, input_image)
              [] method = M_SCALE_BY_IMAGE_MAXIMUM ->
                   scale_by_image_maximum(image_set, input_image)
    IN IF output_image.raised # "none"
       THEN [raised |-> output_image.raised, added |-> <<>>]
       ELSE [raised |-> "none",
             added |-> <<[pixel_data |-> output_image.value,
                          parent_image |-> input_image]>>]

(***************************************************************************)
(* State machine                                                           *)
(***************************************************************************)
Stores ==
    {[image_numbers |-> S,
      col |-> [f \in {MetadataFeature("Row"), MetadataFeature("Col")} |->
                 IF f = MetadataFeature("Row") THEN row ELSE c],
      grouping_tags |-> None] :
        <<S, row, c>> \in
          UNION {{S} \X [S -> RowValues] \X [S -> ColValues] :
                   S \in {T \in SUBSET (1..MaxImageNumber) :
                            Cardinality(T) <= MaxImageSets}}}

\* Groups.create_settings, with the measurements and the pipeline the
\* workspace brings
Init ==
    /\ wants_groups = FALSE
    /\ grouping_metadata = <<"None">>
    /\ in_batch_mode \in BOOLEAN
    /\ m \in Stores
    /\ ret = "none"
    /\ prev_ret = "none"
    /\ m_before = m
    /\ new_image_numbers = None
    /\ grouping_list = EmptyTable
    /\ image_set_list = EmptyTable
    /\ RescaleCreated

\* the settings are edited before the run starts
Editing == ret = "none"

\* Groups.prepare_settings
PrepareSettings(nmetadata) ==
    /\ Editing
    /\ grouping_metadata' =
         IF Len(grouping_metadata) > nmetadata
         THEN SubSeq(grouping_metadata, 1, nmetadata)
         ELSE grouping_metadata \o
              [i \in 1..(nmetadata - Len(grouping_metadata)) |-> "None"]
    /\ UNCHANGED <<wants_groups, in_batch_mode, m, ret, prev_ret, m_before,
                   new_image_numbers, tableVars, rescaleVars>>

\* Groups.add_grouping_metadata, from the "Add another metadata item" button
AddGroupingMetadata ==
    /\ Editing
    /\ Len(grouping_metadata) < MaxKeys
    /\ grouping_metadata' = Append(grouping_metadata, "None")
    /\ UNCHANGED <<wants_groups, in_batch_mode, m, ret, prev_ret, m_before,
                   new_image_numbers, tableVars, rescaleVars>>

\* group.metadata_choice.value = key
SetMetadataChoice(i, key) ==
    /\ Editing
    /\ i \in 1..Len(grouping_metadata)
    /\ grouping_metadata' = [grouping_metadata EXCEPT ![i] = key]
    /\ UNCHANGED <<wants_groups, in_batch_mode, m, ret, prev_ret, m_before,
                   new_image_numbers, tableVars, rescaleVars>>

\* wants_groups.value = b
SetWantsGroups(b) ==
    /\ Editing
    /\ wants_groups' = b
    /\ UNCHANGED <<grouping_metadata, in_batch_mode, m, ret, prev_ret,
                   m_before, new_image_numbers, tableVars, rescaleVars>>

\* the pipeline calls Groups.prepare_run(workspace)
PrepareRun ==
    LET out == prepare_run(wants_groups, grouping_metadata, in_batch_mode, m)
    IN /\ m' = out.m
       /\ ret' = out.ret
       /\ new_image_numbers' = out.new_image_numbers
       /\ prev_ret' = ret
       /\ m_before' = m
       /\ UNCHANGED <<wants_groups, grouping_metadata, in_batch_mode,
                      tableVars, rescaleVars>>

\* Groups.update_tables, called from on_activated and on_setting_changed.
\* With grouping on it reads the group numbers and indexes that
\* refresh_image_set has brought up to date.
UpdateTables(refreshed) ==
    /\ wants_groups =>
         /\ ret = "True"
         /\ {GROUP_NUMBER, GROUP_INDEX} \subseteq m_get_feature_names(m)
    /\ LET out == update_tables(wants_groups, grouping_metadata, m,
                                grouping_list, image_set_list, refreshed)
       IN /\ grouping_list' = out.grouping_list
          /\ image_set_list' = out.image_set_list
    /\ UNCHANGED <<wants_groups, grouping_metadata, in_batch_mode, m, ret,
                   prev_ret, m_before, new_image_numbers, rescaleVars>>

Next ==
    \/ \E n \in 0..MaxKeys : PrepareSettings(n)
    \/ AddGroupingMetadata
    \/ \E i \in 1..MaxKeys, key \in KeyNames : SetMetadataChoice(i, key)
    \/ \E b \in BOOLEAN : SetWantsGroups(b)
    \/ PrepareRun
    \/ \E refreshed \in BOOLEAN : UpdateTables(refreshed)

Spec == Init /\ [][Next]_vars

(***************************************************************************)
(* State machine of a run of RescaleIntensity.  The pipeline goes through  *)
(* the groups in order; for each group it calls prepare_group with the     *)
(* image sets of the group, then run on each image set in turn.            *)
(***************************************************************************)
\* the settings as the user can leave them: a setting that
\* visible_settings does not show for the method keeps the value it was
\* created with
Configurations ==
    {[rescale_method |-> method, wants_automatic_low |-> low,
      wants_automatic_high |-> high, divisor_value |-> divisor] :
        <<method, low, high, divisor>> \in
          ({M_MANUAL_INPUT_RANGE, M_MANUAL_IO_RANGE} \X Range(LOW_ALL)
             \X Range(HIGH_ALL) \X {DefaultDivisorValue})
          \cup ({M_DIVIDE_BY_VALUE} \X {LOW_ALL[1]} \X {HIGH_ALL[1]}
                  \X Intensities)
          \cup ((Range(M_ALL) \ {M_MANUAL_INPUT_RANGE, M_MANUAL_IO_RANGE,
                                 M_DIVIDE_BY_VALUE})
                  \X {LOW_ALL[1]} \X {HIGH_ALL[1]} \X {DefaultDivisorValue})}

\* an image set without an image under matching_image_name
NoImage == [pixel_data |-> <<>>, has_mask |-> FALSE, mask |-> <<>>]

\* the image sets a run can bring: what the method does not read is left out
ImageSets(method) ==
    {[image |-> image, reference |-> reference, measurement |-> value] :
        image \in Images,
        reference \in (IF method = M_SCALE_BY_IMAGE_MAXIMUM
                       THEN Images ELSE {NoImage}),
        value \in (IF method = M_DIVIDE_BY_MEASUREMENT
                   THEN Intensities ELSE {0})}

\* the groups a run can bring: one image set, or two where the module
\* aggregates over the group
GroupsOfImageSets(method, low, high) ==
    {<<s>> : s \in ImageSets(method)}
    \cup (IF is_aggregation_module(low, high)
          THEN {<<s, t>> : s \in ImageSets(method), t \in ImageSets(method)}
          ELSE {})

InitRescale ==
    /\ wants_groups = FALSE
    /\ grouping_metadata = <<"None">>
    /\ in_batch_mode = FALSE
    /\ m = CHOOSE store \in Stores : store.image_numbers = {}
    /\ ret = "none"
    /\ prev_ret = "none"
    /\ m_before = m
    /\ new_image_numbers = None
    /\ grouping_list = EmptyTable
    /\ image_set_list = EmptyTable
    /\ RescaleCreated

\* the user sets the settings before the run
Configure(c) ==
    /\ pc = "new"
    /\ rescale_method' = c.rescale_method
    /\ wants_automatic_low' = c.wants_automatic_low
    /\ wants_automatic_high' = c.wants_automatic_high
    /\ divisor_value' = c.divisor_value
    /\ pc' = "idle"
    /\ UNCHANGED <<d, current_group, group_image_sets, outputs, groupsVars>>

\* the pipeline comes to the next group, with the image sets of the group
StartGroup ==
    /\ pc = "idle"
    /\ current_group < MaxGroups
    /\ current_group' = current_group + 1
    /\ \E image_sets \in GroupsOfImageSets(rescale_method,
                                            wants_automatic_low,
                                            wants_automatic_high) :
         group_image_sets' = image_sets
    /\ outputs' = <<>>
    /\ pc' = "grouped"
    /\ UNCHANGED <<rescale_method, wants_automatic_low, wants_automatic_high,
                   divisor_value, d, groupsVars>>

\* the pipeline calls prepare_group; an exception ends the run
PrepareGroup ==
    /\ pc = "grouped"
    /\ LET out == prepare_group(wants_automatic_low, wants_automatic_high, d,
                                group_image_sets)
       IN /\ d' = out.d
          /\ pc' = IF out.result \in {"True", "None"} THEN "running"
                   ELSE "failed"
    /\ UNCHANGED <<rescale_method, wants_automatic_low, wants_automatic_high,
                   divisor_value, current_group, group_image_sets, outputs,
                   groupsVars>>

\* the pipeline calls run on the next image set of the group
Run ==
    /\ pc = "running"
    /\ Len(outputs) < Len(group_image_sets)
    /\ outputs' = Append(outputs,
                         run(rescale_method, wants_automatic_low,
                             wants_automatic_high, divisor_value, d,
                             group_image_sets[Len(outputs) + 1]))
    /\ UNCHANGED <<rescale_method, wants_automatic_low, wants_automatic_high,
                   divisor_value, d, pc, current_group, group_image_sets,
                   groupsVars>>

\* the group is done: its image sets are dropped, the dictionary stays
EndGroup ==
    /\ pc = "running"
    /\ Len(outputs) = Len(group_image_sets)
    /\ pc' = "idle"
    /\ group_image_sets' = <<>>
    /\ outputs' = <<>>
    /\ UNCHANGED <<rescale_method, wants_automatic_low, wants_automatic_high,
                   divisor_value, d, current_group, groupsVars>>

NextRescale ==
    \/ \E c \in Configurations : Configure(c)
    \/ StartGroup
    \/ PrepareGroup
    \/ Run
    \/ EndGroup

SpecRescale == InitRescale /\ [][NextRescale]_vars

(***************************************************************************)
(* Vocabulary of the properties                                            *)
(***************************************************************************)
\* the last prepare_run handed a renumbering to reorder_image_measurements
Renumbered == ~new_image_numbers.none
\* the image numbers that prepare_run found, and the renumbering of them
Before == m_before.image_numbers
Renumbering == new_image_numbers.value
\* the last prepare_run was asked to group
GroupingOn == ret # "none" /\ wants_groups /\ ~in_batch_mode
KeyList == [i \in 1..Len(grouping_metadata) |->
              MetadataFeature(grouping_metadata[i])]
KeyMissing == \E i \in 1..Len(KeyList) : KeyList[i] \notin m_get_feature_names(m_before)
GroupNumberOf(n) == m.col[GROUP_NUMBER][n]
GroupIndexOf(n) == m.col[GROUP_INDEX][n]
\* the image sets of m_before that have the grouping key of image set i
SameGroupBefore(i) ==
    {j \in Before : GroupKey(m_before, KeyList, j) = GroupKey(m_before, KeyList, i)}

(***************************************************************************)
(* C1: the renumbering that prepare_run hands to                           *)
(* reorder_image_measurements maps the existing image numbers one-to-one   *)
(* onto 1..N, and a grouping run over a non-empty store with its keys      *)
(* present hands one over.                                                 *)
(***************************************************************************)
C1_RenumberingIsBijection ==
    /\ Renumbered =>
         /\ Before # {}
         /\ Before \subseteq DOMAIN Renumbering
         /\ \A i, j \in Before : i # j => Renumbering[i] # Renumbering[j]
         /\ {Renumbering[i] : i \in Before} = 1..Cardinality(Before)
         /\ m.image_numbers = 1..Cardinality(Before)
    /\ (GroupingOn /\ ~KeyMissing /\ Before # {}) => Renumbered

C1_Witness ==
    /\ Renumbered
    /\ Cardinality(Before) = 3
    /\ Before # 1..3
    /\ \E i, j \in Before : i < j /\ Renumbering[i] > Renumbering[j]

(***************************************************************************)
(* C2: after a successful grouping, the group indexes of the image sets    *)
(* that carry group number g are exactly 1..count(g), each once.           *)
(***************************************************************************)
C2_GroupIndexesDense ==
    Renumbered =>
      \A g \in {GroupNumberOf(n) : n \in m.image_numbers} :
        LET members == {n \in m.image_numbers : GroupNumberOf(n) = g}
        IN /\ {GroupIndexOf(n) : n \in members} = 1..Cardinality(members)
           /\ \A a, b \in members : a # b => GroupIndexOf(a) # GroupIndexOf(b)

C2_Witness ==
    /\ Renumbered
    /\ \E a, b, c \in m.image_numbers :
         /\ GroupNumberOf(a) = GroupNumberOf(b) /\ GroupIndexOf(a) = 1
         /\ GroupIndexOf(b) = 2
         /\ GroupNumberOf(c) # GroupNumberOf(a)

(***************************************************************************)
(* C3: after a successful grouping, two image sets have the same group     *)
(* number iff their grouping keys are equal, and the group numbers in use  *)
(* are exactly 1..G, G the number of distinct grouping keys.               *)
(***************************************************************************)
C3_GroupNumberIffKey ==
    Renumbered =>
      /\ \A a, b \in m.image_numbers :
           (GroupNumberOf(a) = GroupNumberOf(b))
             <=> (GroupKey(m, KeyList, a) = GroupKey(m, KeyList, b))
      /\ {GroupNumberOf(n) : n \in m.image_numbers}
           = 1..Cardinality({GroupKey(m, KeyList, n) : n \in m.image_numbers})

C3_Witness ==
    /\ Renumbered
    /\ Len(grouping_metadata) = 2
    /\ grouping_metadata[1] # grouping_metadata[2]
    /\ \E a, b, c \in m.image_numbers :
         /\ a # b /\ GroupNumberOf(a) = GroupNumberOf(b)
         /\ GroupNumberOf(c) # GroupNumberOf(a)

(***************************************************************************)
(* C4: group numbers follow the lexicographic order of the grouping key    *)
(* tuples, a tuple listing the values in the order the keys are            *)
(* configured and its elements compared as strings.                        *)
(***************************************************************************)
\* the values of image set n for the configured keys, in configured order
KeyTuple(n) == [i \in 1..Len(KeyList) |-> m.col[KeyList[i]][n]]

RECURSIVE TupleLess(_, _)
TupleLess(a, b) ==
    IF a = <<>> THEN b # <<>>
    ELSE IF b = <<>> THEN FALSE
    ELSE IF Head(a) # Head(b) THEN StrLess(Head(a), Head(b))
    ELSE TupleLess(Tail(a), Tail(b))

C4_ConfiguredOrder ==
    Renumbered =>
      \A a, b \in m.image_numbers :
        TupleLess(KeyTuple(a), KeyTuple(b)) => GroupNumberOf(a) < GroupNumberOf(b)

(***************************************************************************)
(* C5: within a group the group indexes 1, 2, 3, ... follow the order of   *)
(* arrival: an image set's index is its rank among the image sets of its   *)
(* group in the order they had before grouping.                            *)
(***************************************************************************)
C5_IndexInArrivalOrder ==
    Renumbered =>
      \A i \in Before :
        GroupIndexOf(Renumbering[i])
          = Cardinality({j \in SameGroupBefore(i) : j <= i})

C5_Witness ==
    /\ Renumbered
    /\ \E i, j, k \in Before :
         /\ i < j /\ j < k
         /\ k \in SameGroupBefore(i)
         /\ j \notin SameGroupBefore(i)
         /\ GroupIndexOf(Renumbering[i]) = 1
         /\ GroupIndexOf(Renumbering[k]) = 2

(***************************************************************************)
(* C6: listed by new image number 1..N, the pairs (group number, group     *)
(* index) start at (1, 1) and each next pair is the next index of the same *)
(* group or index 1 of the next group, so they increase strictly.          *)
(***************************************************************************)
C6_GroupMajorOrder ==
    Renumbered =>
      LET N == Cardinality(m.image_numbers)
      IN /\ m.image_numbers = 1..N
         /\ GroupNumberOf(1) = 1 /\ GroupIndexOf(1) = 1
         /\ \A k \in 1..(N - 1) :
              \/ /\ GroupNumberOf(k + 1) = GroupNumberOf(k)
                 /\ GroupIndexOf(k + 1) = GroupIndexOf(k) + 1
              \/ /\ GroupNumberOf(k + 1) = GroupNumberOf(k) + 1
                 /\ GroupIndexOf(k + 1) = 1

C6_Witness ==
    /\ Renumbered
    /\ Cardinality(m.image_numbers) = 3
    /\ GroupNumberOf(2) = 1 /\ GroupIndexOf(2) = 2
    /\ GroupNumberOf(3) = 2 /\ GroupIndexOf(3) = 1
    /\ \E i \in Before : Renumbering[i] # i

(***************************************************************************)
(* C7: a second prepare_run with the same keys, on the measurements the    *)
(* first one reordered, hands over the identity renumbering and leaves     *)
(* every group number and group index as it was.                           *)
(***************************************************************************)
C7_Idempotent ==
    (prev_ret = "True" /\ GroupingOn /\ ret = "True") =>
      /\ Renumbered
      /\ \A i \in Before : Renumbering[i] = i
      /\ m.image_numbers = Before
      /\ \A i \in Before :
           /\ GroupNumberOf(i) = m_before.col[GROUP_NUMBER][i]
           /\ GroupIndexOf(i) = m_before.col[GROUP_INDEX][i]

C7_Witness ==
    /\ prev_ret = "True" /\ GroupingOn /\ ret = "True" /\ Renumbered
    /\ Len(grouping_metadata) = 2
    /\ \E a, b, c \in m.image_numbers :
         /\ a # b /\ GroupNumberOf(a) = GroupNumberOf(b)
         /\ GroupNumberOf(c) # GroupNumberOf(a)

(***************************************************************************)
(* C8: with no grouping keys configured and at least one image set,        *)
(* prepare_run succeeds with a single group: every group number is 1, the  *)
(* group index is the original position and the order is unchanged.        *)
(***************************************************************************)
C8_NoKeysOneGroup ==
    (GroupingOn /\ grouping_metadata = <<>> /\ Before # {}) =>
      /\ ret = "True" /\ Renumbered
      /\ \A i \in Before :
           LET position == Cardinality({j \in Before : j <= i})
           IN /\ Renumbering[i] = position
              /\ GroupNumberOf(Renumbering[i]) = 1
              /\ GroupIndexOf(Renumbering[i]) = position

C8_Witness ==
    /\ GroupingOn /\ grouping_metadata = <<>> /\ Renumbered
    /\ Cardinality(Before) = 3
    /\ \E i, j \in Before :
         m_before.col[MetadataFeature("Row")][i]
           # m_before.col[MetadataFeature("Row")][j]

(***************************************************************************)
(* C9: prepare_run fails whenever a configured grouping key is not a       *)
(* metadata feature of the image sets.  As claimed, the failure is a       *)
(* ConfigurationError; in the code it is the return value False.           *)
(***************************************************************************)
C9_RaisesConfigurationError ==
    (GroupingOn /\ KeyMissing) => ret = "ConfigurationError"

C9_ReturnsFalse ==
    (GroupingOn /\ KeyMissing) => ret = "False"

C9_Witness ==
    /\ GroupingOn /\ ret = "False"
    /\ Before # {}
    /\ \E i, j \in 1..Len(KeyList) :
         /\ KeyList[i] \in m_get_feature_names(m_before)
         /\ KeyList[j] \notin m_get_feature_names(m_before)

(***************************************************************************)
(* C10: a prepare_run that returns False or raises leaves the measurements *)
(* as they were: nothing renumbered, no group number or index written, no  *)
(* grouping tags set.                                                      *)
(***************************************************************************)
C10_AllOrNothing ==
    ret \in {"False", "ValueError"} =>
      /\ m = m_before
      /\ ~Renumbered
      /\ (prev_ret = "none" =>
            /\ m.grouping_tags.none
            /\ GROUP_NUMBER \notin m_get_feature_names(m)
            /\ GROUP_INDEX \notin m_get_feature_names(m))

C10_Witness ==
    /\ ret = "False"
    /\ Cardinality(Before) >= 2
    /\ \E i \in 1..Len(KeyList) : KeyList[i] \in m_get_feature_names(m_before)

(***************************************************************************)
(* C11: prepare_run on no image sets fails and never completes with zero   *)
(* groups.  As claimed, the failure is an EmptyInputError; in the code it  *)
(* is the ValueError of np.hstack, or the return value False when a        *)
(* grouping key is no feature.                                             *)
(***************************************************************************)
C11_RaisesEmptyInputError ==
    (GroupingOn /\ Before = {}) => ret = "EmptyInputError"

C11_EmptyFails ==
    (GroupingOn /\ Before = {}) =>
      /\ ret = (IF KeyMissing THEN "False" ELSE "ValueError")
      /\ ~Renumbered
      /\ m = m_before

C11_Witness ==
    /\ GroupingOn /\ Before = {}
    /\ ret = "ValueError"
    /\ Len(grouping_metadata) = 2

(***************************************************************************)
(* C12: partitioning changes nothing in the measurements.  As claimed, the *)
(* store is the same after prepare_run as before; in the code a            *)
(* successful grouping itself renumbers the image sets, writes their       *)
(* group number and group index and sets the grouping tags.                *)
(***************************************************************************)
C12_StoreUnchanged ==
    ret # "none" => m = m_before

C12_PrepareRunPersists ==
    Renumbered =>
      /\ GROUP_NUMBER \in m_get_feature_names(m)
      /\ GROUP_INDEX \in m_get_feature_names(m)
      /\ m.grouping_tags = Some(KeyList)
      /\ m.image_numbers = {Renumbering[i] : i \in Before}
      /\ \A i \in Before :
           \A key \in {"Row", "Col"} :
             m.col[MetadataFeature(key)][Renumbering[i]]
               = m_before.col[MetadataFeature(key)][i]
      /\ (prev_ret = "none" => m # m_before)

C12_Witness ==
    /\ Renumbered /\ prev_ret = "none"
    /\ Cardinality(Before) = 3
    /\ \E i \in Before : Renumbering[i] # i
    /\ \E i \in Before :
         m.col[MetadataFeature("Row")][Renumbering[i]]
           # m.col[MetadataFeature("Row")][i]

(***************************************************************************)
(* C20: in batch mode, or with grouping turned off, prepare_run returns    *)
(* True and leaves the measurements as they were: nothing renumbered, no   *)
(* group number or index written, no grouping tags set.                    *)
(***************************************************************************)
C20_NotGroupingIsNoOp ==
    (ret # "none" /\ (in_batch_mode \/ ~wants_groups)) =>
      /\ ret = "True"
      /\ ~Renumbered
      /\ m = m_before
      /\ m.grouping_tags.none
      /\ GROUP_NUMBER \notin m_get_feature_names(m)
      /\ GROUP_INDEX \notin m_get_feature_names(m)

C20_Witness ==
    /\ ret = "True" /\ in_batch_mode /\ wants_groups
    /\ grouping_metadata = <<"Row", "Col">>
    /\ Cardinality(Before) = 3
    /\ \E i, j \in Before :
         /\ i < j
         /\ DictLess(GroupKey(m, KeyList, j), GroupKey(m, KeyList, i))

(***************************************************************************)
(* Vocabulary of the properties of the two tables                          *)
(***************************************************************************)
\* update_tables has filled the tables (with grouping on)
TablesFilled == image_set_list.columns # <<>>
GroupsInUse == {GroupNumberOf(n) : n \in m.image_numbers}
MembersOf(g) == {n \in m.image_numbers : GroupNumberOf(n) = g}

RECURSIVE SumOfCounts(_)
SumOfCounts(rows) ==
    IF rows = <<>> THEN 0
    ELSE Head(rows)[Len(Head(rows))] + SumOfCounts(Tail(rows))

\* the image sets that come before image set n by (group number, group index)
ComesBefore(n) ==
    {k \in m.image_numbers :
       \/ GroupNumberOf(k) < GroupNumberOf(n)
       \/ GroupNumberOf(k) = GroupNumberOf(n) /\ GroupIndexOf(k) < GroupIndexOf(n)}

(***************************************************************************)
(* C13: after update_tables with grouping on, the grouping list has one    *)
(* row per group, in ascending order of group number; row g holds the      *)
(* values of the selected keys for group g, then the number of image sets  *)
(* of group g; the counts add up to the number of image sets.              *)
(***************************************************************************)
C13_GroupingListRows ==
    TablesFilled =>
      LET rows == grouping_list.data
      IN /\ Len(rows) = Cardinality(GroupsInUse)
         /\ \A g \in 1..Len(rows) :
              /\ g \in GroupsInUse
              /\ \A n \in MembersOf(g) :
                   rows[g] = KeyTuple(n) \o <<Cardinality(MembersOf(g))>>
         /\ SumOfCounts(rows) = Cardinality(m.image_numbers)
         /\ Len(grouping_list.columns) = Len(grouping_metadata) + 1

C13_Witness ==
    /\ TablesFilled
    /\ Len(grouping_metadata) = 2
    /\ Len(grouping_list.data) = 2
    /\ grouping_list.data[1][3] = 1
    /\ grouping_list.data[2][3] = 2

UnmaskedPixels(image) == Select(image.pixel_data, image.mask)

\* the intensities of the group the pipeline is running
GroupIntensities ==
    UNION {Range(UnmaskedPixels(group_image_sets[i].image)) :
             i \in DOMAIN group_image_sets}

\* prepare_group has returned for the current group
Prepared == pc = "running"

\* the dictionary holds the number v under key
Holds(key, v) == key \in DOMAIN d /\ ~d[key].none /\ d[key].value = v

\* an end of a source range is the number v
IsNumber(x, v) == ~x.none /\ x.value = v

ManualMethods == {M_MANUAL_INPUT_RANGE, M_MANUAL_IO_RANGE}
DivideMethods == {M_DIVIDE_BY_IMAGE_MINIMUM, M_DIVIDE_BY_IMAGE_MAXIMUM,
                  M_DIVIDE_BY_VALUE, M_DIVIDE_BY_MEASUREMENT}

\* the image sets run so far that got an output image
WithOutput == {i \in DOMAIN outputs : outputs[i].raised = "none"}
OutputPixels(i) == outputs[i].added[1].pixel_data

\* the divisor of a divide-based method on an image set, if there is one
DivisorOf(image_set) ==
    LET pixels == UnmaskedPixels(image_set.image)
    IN CASE rescale_method = M_DIVIDE_BY_IMAGE_MINIMUM ->
              IF pixels = <<>> THEN {} ELSE {Min(Range(pixels))}
         [] rescale_method = M_DIVIDE_BY_IMAGE_MAXIMUM ->
              IF pixels = <<>> THEN {} ELSE {Max(Range(pixels))}
         [] rescale_method = M_DIVIDE_BY_VALUE -> {divisor_value}
         [] rescale_method = M_DIVIDE_BY_MEASUREMENT ->
              {image_set.measurement}
         [] OTHER -> {}

\* run never found the dictionary without the key it read
NeverReadsUnset == \A i \in DOMAIN outputs : outputs[i].raised # "KeyError"

(***************************************************************************)
(* C15: once prepare_group has returned, the automatic maximum it stored   *)
(* (with "Maximum of all images") is the highest intensity over all the    *)
(* images of the group, an image with a mask counting by its unmasked      *)
(* pixels, and the automatic minimum (with "Minimum of all images") the    *)
(* lowest, whether or not the images have masks.                           *)
(***************************************************************************)
C15_StoresGroupExtremes ==
    Prepared =>
      /\ wants_automatic_high = HIGH_ALL_IMAGES =>
           Holds(HIGH_ALL_IMAGES, Max(GroupIntensities))
      /\ wants_automatic_low = LOW_ALL_IMAGES =>
           Holds(LOW_ALL_IMAGES, Min(GroupIntensities))

(***************************************************************************)
(* C16: with "Match the image's maximum to another image's maximum", the   *)
(* maximum of the output image (over the pixels its mask lets count) is    *)
(* the maximum within the reference image.                                 *)
(***************************************************************************)
C16_OutputMaximumIsReferenceMaximum ==
    rescale_method = M_SCALE_BY_IMAGE_MAXIMUM =>
      \A i \in WithOutput :
        LET image_set == group_image_sets[i]
            counted == Select(OutputPixels(i), image_set.image.mask)
            reference == UnmaskedPixels(image_set.reference)
        IN reference # <<>> =>
             /\ \E k \in DOMAIN counted :
                  QuotientEqual(counted[k], Quotient(Max(Range(reference)), 1))
             /\ \A k \in DOMAIN counted :
                  ~QuotientLess(Quotient(Max(Range(reference)), 1), counted[k])

(***************************************************************************)
(* C17: with "Divide by the image's minimum", every pixel of the output    *)
(* image is equal to or greater than 1.                                    *)
(***************************************************************************)
C17_EveryPixelAtLeastOne ==
    rescale_method = M_DIVIDE_BY_IMAGE_MINIMUM =>
      \A i \in WithOutput :
        \A k \in DOMAIN OutputPixels(i) :
          ~QuotientLess(OutputPixels(i)[k], Quotient(1, 1))

(***************************************************************************)
(* C18: with a divide-based method, run on an image set whose divisor is 0 *)
(* raises ZeroDivisionError and adds no output image; run on an image set  *)
(* whose divisor is not 0 adds exactly one output image.                   *)
(***************************************************************************)
C18_DivideByZeroRaises ==
    rescale_method \in DivideMethods =>
      \A i \in DOMAIN outputs :
        \A divisor \in DivisorOf(group_image_sets[i]) :
          /\ divisor = 0 =>
               /\ outputs[i].raised = "ZeroDivisionError"
               /\ outputs[i].added = <<>>
          /\ divisor # 0 =>
               /\ outputs[i].raised = "none"
               /\ Len(outputs[i].added) = 1

C18_Witness ==
    /\ rescale_method = M_DIVIDE_BY_IMAGE_MINIMUM
    /\ current_group = 2
    /\ Len(outputs) = 1
    /\ DivisorOf(group_image_sets[1]) = {0}
    /\ outputs[1].raised = "ZeroDivisionError"

(***************************************************************************)
(* C19: in a run over several groups with "Minimum of all images" or       *)
(* "Maximum of all images", every image of a group is rescaled with the    *)
(* minimum / maximum over that group itself, and run never reads the       *)
(* automatic minimum or maximum before prepare_group has stored it.        *)
(***************************************************************************)
C19_GroupAggregateUsed ==
    /\ NeverReadsUnset
    /\ rescale_method \in ManualMethods =>
         \A i \in WithOutput :
           LET in_range == OutputPixels(i).in_range
           IN /\ wants_automatic_low = LOW_ALL_IMAGES =>
                   IsNumber(in_range[1], Min(GroupIntensities))
              /\ wants_automatic_high = HIGH_ALL_IMAGES =>
                   IsNumber(in_range[2], Max(GroupIntensities))

(***************************************************************************)
(* Vocabulary of the agreement of the written values with the renumbering  *)
(***************************************************************************)
\* the groupings the last prepare_run sorted: (key, image numbers) pairs
GroupingsBefore == sorted(m_get_groupings(m_before, KeyList))
\* the position of the grouping that holds image set i, and the position of
\* i among the image numbers of that grouping
GroupingOf(i) ==
    CHOOSE g \in 1..Len(GroupingsBefore) :
      \E j \in 1..Len(GroupingsBefore[g][2]) : GroupingsBefore[g][2][j] = i
PlaceInGrouping(i) ==
    CHOOSE j \in 1..Len(GroupingsBefore[GroupingOf(i)][2]) :
      GroupingsBefore[GroupingOf(i)][2][j] = i

(***************************************************************************)
(* C21: after a successful grouping, for every image set the group number  *)
(* and group index stored at its new image number are the number of the    *)
(* grouping it belongs to and its place in that grouping, and the image    *)
(* set found at that new number is that image set, with its own values.    *)
(***************************************************************************)
C21_WrittenValuesFollowRenumbering ==
    Renumbered =>
      \A i \in Before :
        LET k == Renumbering[i]
        IN /\ k \in m.image_numbers
           /\ GroupNumberOf(k) = GroupingOf(i)
           /\ GroupIndexOf(k) = PlaceInGrouping(i)
           /\ \A f \in DOMAIN m_before.col \ {GROUP_NUMBER, GROUP_INDEX} :
                m.col[f][k] = m_before.col[f][i]

C21_Witness ==
    /\ Renumbered
    /\ Cardinality(Before) = 3
    /\ \E i \in Before :
         /\ Renumbering[i] # i
         /\ Renumbering[Renumbering[i]] # i
         /\ GroupNumberOf(Renumbering[i]) = 2
         /\ GroupIndexOf(Renumbering[i]) = 1
    /\ \E i \in Before : GroupIndexOf(Renumbering[i]) = 2

====
